---- MODULE Spec2Model ----
(***************************************************************************)
(* Minigame progression and scoring subsystem of the student-finance app.  *)
(*                                                                         *)
(* The three game screens (Connections = financial categories,            *)
(* SpendDetective, SmartSaverQuiz) are modelled from the React sources:    *)
(* every async handler is split at its `await fetch`, the part before it   *)
(* is the press action, the part after it is the resume action, and the    *)
(* values the closure captured at press time travel with the call.         *)
(* The Flask backend (Round Engine and Progression Ledger) is not part of  *)
(* the sources; its actions (Srv...) follow the written contract.          *)
(***************************************************************************)
EXTENDS Integers, Sequences, FiniteSets, TLC

(* ----------------------------- bounds -------------------------------- *)
\* async calls that may be in flight at the same time
MaxInFlight == 2
\* start calls (mount included) issued in one behaviour
MaxStarts == 2
\* calendar weeks that pass in one behaviour (weeks 0..MaxWeek)
MaxWeek == 1
\* the player picks among this many of the lowest-numbered category tiles on the board
CatWindow == 1
\* ... and among this many of the lowest-numbered amount tiles on the board
AmtWindow == 2
\* feedback timeouts (pending or still to be scheduled by a call in flight)
MaxTimers == 2
\* the user taps the last transaction card, or one of the DetWindow lowest unlocked
DetWindow == 1
\* questions of a quiz set, and choices of a question
NumQuestions == 2
NumChoices == 2
\* rounds of one user finalized at the same time
NumFinalizers == 2
\* a finalized round scored 0..MaxScore, on a ledger holding 0..MaxBase awards
MaxScore == 2
MaxBase == 2
MaxXpHundreds == 125

(* ------------------------- program constants ------------------------- *)
\* useState(3) / `tries_remaining ?? 3`
INITIAL_TRIES == 3
\* const total = 5 (pairs on a categories board)
total == 5
TRIVIA_QUESTIONS == 6
\* XP per correct item (score*20, nextCorrect*20)
XP_PER_CORRECT == 20
\* anomalies seeded in a detective round (2-4 per round)
MIN_ANOMALIES == 2
MAX_ANOMALIES == 4

Absent == 0 - 1
Null == 0
Slots == 1..MaxInFlight
Tiles == 1..total
\* transactions of a detective round: the anomalies are 1..k, the rest is normal
Txs == 1..(MAX_ANOMALIES + 1)
\* GUESS_URLS by position, and the positions the backend serves
GUESS_URLS == {1, 2, 3}
LiveGuessUrls == {2}
Questions == 1..NumQuestions
Choices == 0..(NumChoices - 1)
\* the server-held correct index of question q
CorrectIndex(q) == q % NumChoices
Min(a, b) == IF a <= b THEN a ELSE b
Games == {"categories", "detective", "quiz"}

\* the k smallest members of S
Lowest(S, k) == {x \in S : Cardinality({y \in S : y < x}) < k}

VARIABLES
  screen,     \* the game screen that is mounted
  user,       \* Identity Provider: is the user signed in (auth.currentUser)
  starts,     \* start calls issued so far
  history,    \* the user's transaction history: "low" or "enough"
  week,       \* current calendar week
  ledger,     \* Progression Ledger record of the user
  ledgerTxn,  \* Progression Ledger: the ledger updates in progress
  catRound,   \* Round Engine: the user's categories round
  detRound,   \* Round Engine: the user's detective round
  quizRound,  \* Round Engine: the user's quiz round
  calls,      \* async calls of the mounted screen, by slot
  cat,        \* Connections component state (useState cells)
  catTimers,  \* pending setTimeout callbacks of Connections.onCheck
  det,        \* SpendDetective component state
  quiz,       \* SmartSaverQuiz component state
  trivia,     \* TriviaTestScreen component state
  home        \* GamesHome: the cells of useXP

vars == <<screen, user, starts, history, week, ledger, ledgerTxn, catRound, detRound, quizRound,
          calls, cat, catTimers, det, quiz, trivia, home>>
envVars == <<screen, user, history, week, ledgerTxn>>
roundVars == <<catRound, detRound, quizRound>>
uiVars == <<cat, catTimers, det, quiz>>
localVars == <<trivia, home>>

(* ------------------------------ calls -------------------------------- *)
FreeCall == [kind |-> "free"]
IsFree(s) == calls[s].kind = "free"
HasFree == \E s \in Slots : IsFree(s)
FreeSlot == CHOOSE s \in Slots : IsFree(s) /\ \A t \in Slots : IsFree(t) => s <= t
Sent(s, k) == calls[s].kind = k /\ calls[s].phase = "sent"
Answered(s, k) == calls[s].kind = k /\ calls[s].phase = "answered"
InFlight(k) == Cardinality({s \in Slots : calls[s].kind = k})
\* getFirebaseIdToken() returns a token, not null
getFirebaseIdToken == user = "signed_in"
\* a request; authorization: does it carry the header `Authorization: Bearer <token>`
NewCall(k, g, req) ==
  [kind |-> k, game |-> g, phase |-> "sent", req |-> req,
   authorization |-> getFirebaseIdToken]
Reply(s, resp) == [calls EXCEPT ![s] = [kind |-> calls[s].kind, game |-> calls[s].game,
                                        phase |-> "answered", req |-> calls[s].req,
                                        authorization |-> calls[s].authorization,
                                        resp |-> resp]]

(* ----------------------- Progression Ledger -------------------------- *)
\* level is a step function of total_xp
LevelOf(xp) == 1 + (xp \div (total * XP_PER_CORRECT))

\* streak after a play in week w
StreakAfter(l, w) ==
  IF l.lastPlay = w THEN l.streak
  ELSE IF l.lastPlay = w - 1 THEN l.streak + 1
  ELSE 1

\* total_xp += xp_delta, streak re-evaluated for the play week
LedgerAward(l, delta, w) ==
  [total_xp |-> l.total_xp + delta, streak |-> StreakAfter(l, w), lastPlay |-> w]

\* XP of a low-data grant
LowDataXp == XP_PER_CORRECT

\* The update at finalize as the read-modify-write it is, one per finalizer, made
\* atomic per user by a lock on the user's record.
Finalizers == 1..NumFinalizers
IdleOp(d) == [pc |-> "idle", delta |-> d, seen |-> Absent]
NoTxn == [base |-> 0, lock |-> 0, ops |-> [f \in Finalizers |-> IdleOp(0)]]

RECURSIVE SumDeltas(_, _)
SumDeltas(ops, F) ==
  IF F = {} THEN 0
  ELSE LET f == CHOOSE x \in F : TRUE IN ops[f].delta + SumDeltas(ops, F \ {f})

\* variant: no serialization per user
LedgerMayBegin_unlocked(f) == TRUE

\* may finalizer f start its update of the user's record?
LedgerMayBegin(f) == ledgerTxn.lock = 0

\* finalizer f takes the user's record and reads it
LedgerBegin(f) ==
  /\ ledgerTxn.ops[f].pc = "idle"
  /\ LedgerMayBegin(f)
  /\ ledgerTxn' = [ledgerTxn EXCEPT !.lock = f, !.ops[f].pc = "read",
                                    !.ops[f].seen = ledger.total_xp]
  /\ UNCHANGED <<localVars, user, screen, history, week, starts, ledger, roundVars, calls, uiVars>>

\* finalizer f writes total_xp + delta back and releases the record
LedgerCommit(f) ==
  /\ ledgerTxn.ops[f].pc = "read"
  /\ ledger' = LedgerAward([ledger EXCEPT !.total_xp = ledgerTxn.ops[f].seen],
                           ledgerTxn.ops[f].delta, week)
  /\ ledgerTxn' = [ledgerTxn EXCEPT !.lock = IF @ = f THEN 0 ELSE @,
                                    !.ops[f].pc = "done"]
  /\ UNCHANGED <<localVars, user, screen, history, week, starts, roundVars, calls, uiVars>>

(* --------------------- Round Engine: categories ---------------------- *)
NoRound == [id |-> 0, status |-> "none", tries |-> 0, solved |-> {}]

\* variant: the grant's response reports the total from before the grant
LowDataResp_stale(l2, xp) ==
  [ok |-> TRUE, can_play |-> FALSE, insufficient_data |-> TRUE, message |-> TRUE,
   round_id |-> Null, tries_remaining |-> Absent, items |-> FALSE,
   xp_awarded |-> xp, total_xp |-> l2.total_xp - xp, level |-> 1, streak |-> l2.streak]

LowDataResp(l2, xp) ==
  [ok |-> TRUE, can_play |-> FALSE, insufficient_data |-> TRUE, message |-> TRUE,
   round_id |-> Null, tries_remaining |-> Absent, items |-> FALSE,
   xp_awarded |-> xp, total_xp |-> l2.total_xp, level |-> LevelOf(l2.total_xp),
   streak |-> l2.streak]

PlayableResp(id) ==
  [ok |-> TRUE, can_play |-> TRUE, insufficient_data |-> FALSE, message |-> FALSE,
   round_id |-> id, tries_remaining |-> INITIAL_TRIES, items |-> TRUE,
   xp_awarded |-> 0, total_xp |-> ledger.total_xp, level |-> LevelOf(ledger.total_xp),
   streak |-> ledger.streak]

\* POST /financial-categories/start
SrvCatStart(s) ==
  /\ Sent(s, "start") /\ calls[s].game = "categories" /\ calls[s].authorization
  /\ IF history = "low"
     THEN LET l2 == LedgerAward(ledger, LowDataXp, week) IN
          /\ ledger' = l2
          /\ calls' = Reply(s, LowDataResp(l2, LowDataXp))
          /\ UNCHANGED catRound
     ELSE /\ catRound' = [id |-> catRound.id + 1, status |-> "in_progress",
                          tries |-> INITIAL_TRIES, solved |-> {}]
          /\ calls' = Reply(s, PlayableResp(catRound.id + 1))
          /\ UNCHANGED ledger
  /\ UNCHANGED <<envVars, localVars, starts, detRound, quizRound, uiVars>>

\* a structured rejection: success flag false, no payload, round state untouched
Rejected(why) ==
  [http |-> 200, ok |-> FALSE, correct |-> FALSE, tries_remaining |-> Absent,
   round_complete |-> FALSE, new_correct |-> Absent, total_correct |-> Absent,
   total_anomalies |-> Absent, xp_earned |-> Absent, total_xp |-> Absent,
   level |-> Absent, streak |-> Absent, error |-> why]

\* refusals of a submission against round r, with or without the round's
\* tries_remaining in the body
Refusals(why, r) ==
  {Rejected(why), [Rejected(why) EXCEPT !.tries_remaining = r.tries]}

\* outcome of a judged submission on round r2, finalized when r2 is terminal
MatchResp(r2, correct, l2) ==
  LET fin == r2.status # "in_progress" IN
  [ok |-> TRUE, correct |-> correct, tries_remaining |-> r2.tries,
   round_complete |-> fin,
   xp_earned |-> IF fin THEN XP_PER_CORRECT * Cardinality(r2.solved) ELSE Absent,
   total_xp |-> IF fin THEN l2.total_xp ELSE Absent,
   level |-> IF fin THEN LevelOf(l2.total_xp) ELSE Absent,
   streak |-> IF fin THEN l2.streak ELSE Absent,
   error |-> "none"]

\* the round after pairing category c with amount a (truth: c pairs with a = c)
CatJudge(r, c, a) ==
  IF c = a
  THEN [r EXCEPT !.solved = @ \cup {c},
                 !.status = IF r.solved \cup {c} = Tiles THEN "complete" ELSE @]
  ELSE [r EXCEPT !.tries = @ - 1,
                 !.status = IF r.tries - 1 = 0 THEN "exhausted" ELSE @]

\* POST /financial-categories/match
SrvCatMatch(s) ==
  /\ Sent(s, "submit") /\ calls[s].game = "categories" /\ calls[s].authorization
  /\ LET q == calls[s].req IN
     IF q.round_id # catRound.id
     THEN /\ calls' = Reply(s, Rejected("round_unavailable"))
          /\ UNCHANGED <<catRound, ledger>>
     ELSE IF catRound.status # "in_progress"
     THEN /\ \E body \in Refusals("round_unavailable", catRound) : calls' = Reply(s, body)
          /\ UNCHANGED <<catRound, ledger>>
     ELSE IF q.category_id \notin Tiles \ catRound.solved
             \/ q.amount_id \notin Tiles \ catRound.solved
     THEN /\ \E body \in Refusals("malformed_selection", catRound) : calls' = Reply(s, body)
          /\ UNCHANGED <<catRound, ledger>>
     ELSE LET r2 == CatJudge(catRound, q.category_id, q.amount_id)
              l2 == IF r2.status = "in_progress" THEN ledger
                    ELSE LedgerAward(ledger, XP_PER_CORRECT * Cardinality(r2.solved), week)
          IN /\ catRound' = r2
             /\ ledger' = l2
             /\ calls' = Reply(s, MatchResp(r2, q.category_id = q.amount_id, l2))
  /\ UNCHANGED <<envVars, localVars, starts, detRound, quizRound, uiVars>>

(* ------------------- Connections (categories screen) ----------------- *)
NoStats == [set |-> FALSE, xp |-> Absent, level |-> Absent, streak |-> Absent]

CatInitial ==
  [loading |-> TRUE, error |-> "none", lowMsg |-> FALSE, tries |-> INITIAL_TRIES,
   canPlay |-> FALSE, roundId |-> Null, tiles |-> {},
   selCatId |-> Null, selAmtId |-> Null, feedback |-> "none", solved |-> <<>>,
   completed |-> FALSE, reveal |-> FALSE, finalStats |-> NoStats]

solvedCount == Len(cat.solved)
done == cat.completed \/ cat.tries <= 0
\* variant: the filter of the category pool finds no solved pair
SolvedCats_none == {}

SolvedCats == {cat.solved[i][1] : i \in 1..Len(cat.solved)}
SolvedAmts == {cat.solved[i][2] : i \in 1..Len(cat.solved)}
unsolvedCategories == cat.tiles \ SolvedCats
unsolvedAmounts == cat.tiles \ SolvedAmts

\* which card of the screen is rendered
CatErrorView == cat.error # "none" /\ ~cat.loading
CatLowView == ~cat.loading /\ cat.error = "none" /\ cat.lowMsg
CatPlayView == ~cat.loading /\ cat.error = "none" /\ cat.canPlay

\* the synchronous head of startRound
CatStartReset ==
  [cat EXCEPT !.loading = TRUE, !.error = "none", !.lowMsg = FALSE, !.reveal = FALSE,
              !.finalStats = NoStats, !.completed = FALSE, !.selCatId = Null,
              !.selAmtId = Null, !.feedback = "none", !.solved = <<>>]

\* Try Again / Check Again / Shuffle-Restart / Play Again pressed
Connections_startRound ==
  /\ screen = "categories"
  /\ CatErrorView \/ CatLowView \/ CatPlayView
  /\ starts < MaxStarts /\ HasFree
  /\ cat' = CatStartReset
  /\ calls' = [calls EXCEPT ![FreeSlot] = NewCall("start", "categories", [round_id |-> Null])]
  /\ starts' = starts + 1
  /\ UNCHANGED <<envVars, localVars, ledger, roundVars, catTimers, det, quiz>>

\* startRound after `await res.json()`
Connections_startRound_resume(s) ==
  /\ Answered(s, "start") /\ calls[s].game = "categories"
  /\ LET json == calls[s].resp IN
     cat' = IF ~json.ok
            THEN [cat EXCEPT !.error = "server", !.loading = FALSE]
            ELSE IF json.can_play = FALSE
            THEN [cat EXCEPT !.canPlay = FALSE, !.lowMsg = TRUE, !.tries = 0,
                             !.tiles = {}, !.roundId = Null, !.loading = FALSE]
            ELSE [cat EXCEPT !.canPlay = TRUE,
                             !.tries = IF json.tries_remaining = Absent
                                       THEN INITIAL_TRIES ELSE json.tries_remaining,
                             !.roundId = json.round_id,
                             !.tiles = IF json.items THEN Tiles ELSE {},
                             !.loading = FALSE]
  /\ calls' = [calls EXCEPT ![s] = FreeCall]
  /\ UNCHANGED <<envVars, localVars, starts, ledger, roundVars, catTimers, det, quiz>>

\* a category tile pressed: select it, or unselect it when it is selected
Connections_tapCategory(c) ==
  /\ screen = "categories" /\ CatPlayView /\ ~done
  /\ c \in Lowest(unsolvedCategories, CatWindow)
  /\ cat' = [cat EXCEPT !.selCatId = IF @ = c THEN Null ELSE c]
  /\ UNCHANGED <<envVars, localVars, starts, ledger, roundVars, calls, catTimers, det, quiz>>

Connections_tapAmount(a) ==
  /\ screen = "categories" /\ CatPlayView /\ ~done
  /\ a \in Lowest(unsolvedAmounts, AmtWindow)
  /\ cat' = [cat EXCEPT !.selAmtId = IF @ = a THEN Null ELSE a]
  /\ UNCHANGED <<envVars, localVars, starts, ledger, roundVars, calls, catTimers, det, quiz>>

\* Check pressed: the guard of onCheck, then the request with the closure's values
\* (at most maxSubmits submit calls are in flight at a time)
Connections_onCheck(maxSubmits) ==
  /\ screen = "categories" /\ CatPlayView /\ ~done
  /\ cat.selCatId # Null /\ cat.selAmtId # Null
  /\ cat.feedback = "none"
  /\ HasFree
  /\ InFlight("submit") < maxSubmits
  /\ catTimers + InFlight("submit") < MaxTimers
  /\ calls' = [calls EXCEPT ![FreeSlot] =
        NewCall("submit", "categories",
                [category_id |-> cat.selCatId, amount_id |-> cat.selAmtId,
                 round_id |-> cat.roundId, solvedCount |-> solvedCount,
                 tiles |-> cat.tiles])]
  /\ UNCHANGED <<envVars, localVars, starts, ledger, roundVars, uiVars>>

\* variant: setTries without the typeof guard
CatTriesAfter_unguarded(prev, json) == json.tries_remaining

\* tries after `if (typeof json.tries_remaining === "number") setTries(...)`
CatTriesAfter(prev, json) ==
  IF json.tries_remaining # Absent THEN json.tries_remaining ELSE prev

\* onCheck after `await resp.json()`
Connections_onCheck_resume(s) ==
  /\ Answered(s, "submit") /\ calls[s].game = "categories"
  /\ LET json == calls[s].resp
         q == calls[s].req
         t2 == CatTriesAfter(cat.tries, json)
     IN
     IF ~json.ok \/ ~json.correct
     THEN cat' = [cat EXCEPT !.tries = t2, !.feedback = "wrong"]
     ELSE LET known == q.category_id \in q.tiles /\ q.amount_id \in q.tiles
              reachedAll == q.solvedCount + 1 >= total
              fin == json.round_complete \/ reachedAll
          IN cat' = [cat EXCEPT
                 !.tries = t2,
                 !.solved = IF known THEN Append(@, <<q.category_id, q.amount_id>>) ELSE @,
                 !.feedback = "correct",
                 !.completed = IF fin THEN TRUE ELSE @,
                 !.reveal = IF json.round_complete THEN TRUE ELSE @,
                 !.finalStats = IF json.round_complete
                                THEN [set |-> TRUE, xp |-> json.xp_earned,
                                      level |-> json.level, streak |-> json.streak]
                                ELSE @]
  /\ catTimers' = catTimers + 1
  /\ calls' = [calls EXCEPT ![s] = FreeCall]
  /\ UNCHANGED <<envVars, localVars, starts, ledger, roundVars, det, quiz>>

\* the setTimeout callback of onCheck
Connections_feedbackTimeout ==
  /\ catTimers > 0
  /\ catTimers' = catTimers - 1
  /\ cat' = [cat EXCEPT !.feedback = "none", !.selCatId = Null, !.selAmtId = Null]
  /\ UNCHANGED <<envVars, localVars, starts, ledger, roundVars, calls, det, quiz>>

\* fetch rejects (request or response lost) or the body is not JSON
Connections_fetchFails(s) ==
  /\ ~IsFree(s) /\ calls[s].game = "categories"
  /\ cat' = IF calls[s].kind = "start"
            THEN [cat EXCEPT !.error = "network", !.loading = FALSE]
            ELSE cat
  /\ calls' = [calls EXCEPT ![s] = FreeCall]
  /\ UNCHANGED <<envVars, localVars, starts, ledger, roundVars, catTimers, det, quiz>>

(* ---------------------- Round Engine: detective --------------------- *)
NoDetRound ==
  [id |-> 0, status |-> "none", tries |-> 0, found |-> {}, anoms |-> {}, week |-> Absent]

\* the weekly cap's "come back later": not playable, no data shortage
CapResp(l2, xp) == [LowDataResp(l2, xp) EXCEPT !.insufficient_data = FALSE]

\* variant: the cap lasts only while the week's round is in progress
DetCapped_inProgress ==
  detRound.id > 0 /\ detRound.week = week /\ detRound.status = "in_progress"

\* a playable round was already handed out in the current week
DetCapped == detRound.id > 0 /\ detRound.week = week

\* POST /spend-detective/start
SrvDetStart(s) ==
  /\ Sent(s, "start") /\ calls[s].game = "detective" /\ calls[s].authorization
  /\ IF history = "low"
     THEN LET l2 == LedgerAward(ledger, LowDataXp, week) IN
          /\ ledger' = l2
          /\ calls' = Reply(s, LowDataResp(l2, LowDataXp))
          /\ UNCHANGED detRound
     ELSE IF DetCapped
     THEN LET l2 == LedgerAward(ledger, LowDataXp, week) IN
          /\ ledger' = l2
          /\ calls' = Reply(s, CapResp(l2, LowDataXp))
          /\ UNCHANGED detRound
     ELSE /\ \E k \in MIN_ANOMALIES..MAX_ANOMALIES :
               detRound' = [id |-> detRound.id + 1, status |-> "in_progress",
                            tries |-> INITIAL_TRIES, found |-> {}, anoms |-> 1..k,
                            week |-> week]
          /\ calls' = Reply(s, PlayableResp(detRound.id + 1))
          /\ UNCHANGED ledger
  /\ UNCHANGED <<envVars, localVars, starts, catRound, quizRound, uiVars>>

\* variant: a wrong guess costs no try
DetJudge_freeMiss(r, t) ==
  IF t \in r.anoms
  THEN [r EXCEPT !.found = @ \cup {t},
                 !.status = IF r.found \cup {t} = r.anoms THEN "complete" ELSE @]
  ELSE r

\* the round after the guess that transaction t is an anomaly
DetJudge(r, t) ==
  IF t \in r.anoms
  THEN [r EXCEPT !.found = @ \cup {t},
                 !.status = IF r.found \cup {t} = r.anoms THEN "complete" ELSE @]
  ELSE [r EXCEPT !.tries = @ - 1,
                 !.status = IF r.tries - 1 = 0 THEN "exhausted" ELSE @]

GuessResp(r2, hit, l2) ==
  LET fin == r2.status # "in_progress" IN
  [http |-> 200, ok |-> TRUE, correct |-> hit, tries_remaining |-> r2.tries,
   round_complete |-> fin, new_correct |-> IF hit THEN 1 ELSE 0,
   total_correct |-> Cardinality(r2.found), total_anomalies |-> Cardinality(r2.anoms),
   xp_earned |-> IF fin THEN XP_PER_CORRECT * Cardinality(r2.found) ELSE Absent,
   total_xp |-> IF fin THEN l2.total_xp ELSE Absent,
   level |-> IF fin THEN LevelOf(l2.total_xp) ELSE Absent,
   streak |-> IF fin THEN l2.streak ELSE Absent,
   error |-> "none"]

NotFound == [Rejected("not_found") EXCEPT !.http = 404]

\* POST to one of the guess URLs
SrvDetGuess(s) ==
  /\ Sent(s, "submit") /\ calls[s].game = "detective" /\ calls[s].authorization
  /\ LET q == calls[s].req IN
     IF q.url \notin LiveGuessUrls
     THEN /\ calls' = Reply(s, NotFound)
          /\ UNCHANGED <<detRound, ledger>>
     ELSE IF q.round_id # detRound.id
     THEN /\ calls' = Reply(s, Rejected("round_unavailable"))
          /\ UNCHANGED <<detRound, ledger>>
     ELSE IF detRound.status # "in_progress"
     THEN /\ \E body \in Refusals("round_unavailable", detRound) : calls' = Reply(s, body)
          /\ UNCHANGED <<detRound, ledger>>
     ELSE IF q.selected_id \notin Txs \ detRound.found
     THEN /\ \E body \in Refusals("malformed_selection", detRound) : calls' = Reply(s, body)
          /\ UNCHANGED <<detRound, ledger>>
     ELSE LET r2 == DetJudge(detRound, q.selected_id)
              l2 == IF r2.status = "in_progress" THEN ledger
                    ELSE LedgerAward(ledger, XP_PER_CORRECT * Cardinality(r2.found), week)
          IN /\ detRound' = r2
             /\ ledger' = l2
             /\ calls' = Reply(s, GuessResp(r2, q.selected_id \in detRound.anoms, l2))
  /\ UNCHANGED <<envVars, localVars, starts, catRound, quizRound, uiVars>>

(* -------------------- SpendDetective (detective screen) -------------- *)
DetInitial ==
  [loading |-> TRUE, error |-> "none", canPlay |-> FALSE, lowMsg |-> FALSE,
   tries |-> INITIAL_TRIES, transactions |-> {}, roundId |-> Null,
   selectedId |-> Null, locked |-> {}, totalAnomalies |-> Absent, totalCorrect |-> 0,
   completed |-> FALSE, reveal |-> FALSE, finalStats |-> NoStats]

foundCount == det.totalCorrect
canSubmit == det.selectedId # Null

DetErrorView == det.error # "none" /\ ~det.loading
DetLowView == ~det.loading /\ det.error = "none" /\ det.lowMsg
DetPlayView == ~det.loading /\ det.error = "none" /\ det.canPlay /\ ~det.completed
DetCompletedView == ~det.loading /\ det.error = "none" /\ det.completed

\* the synchronous head of startRound
DetStartReset ==
  [det EXCEPT !.loading = TRUE, !.error = "none", !.selectedId = Null, !.locked = {},
              !.completed = FALSE, !.reveal = FALSE, !.finalStats = NoStats,
              !.totalAnomalies = Absent, !.totalCorrect = 0]

\* Try Again / Check Again / New Round / Play Again pressed
SpendDetective_startRound ==
  /\ screen = "detective"
  /\ DetErrorView \/ DetLowView \/ DetPlayView \/ DetCompletedView
  /\ starts < MaxStarts /\ HasFree
  /\ det' = DetStartReset
  /\ calls' = [calls EXCEPT ![FreeSlot] = NewCall("start", "detective", [round_id |-> Null])]
  /\ starts' = starts + 1
  /\ UNCHANGED <<envVars, localVars, ledger, roundVars, cat, catTimers, quiz>>

\* does startRound take the start response for the not-playable outcome?
DetNotPlayable(json) == json.insufficient_data = TRUE

\* startRound after `await res.json()`
SpendDetective_startRound_resume(s) ==
  /\ Answered(s, "start") /\ calls[s].game = "detective"
  /\ LET json == calls[s].resp IN
     det' = IF ~json.ok
            THEN [det EXCEPT !.error = "server", !.loading = FALSE]
            ELSE IF DetNotPlayable(json)
            THEN [det EXCEPT !.canPlay = FALSE, !.lowMsg = TRUE, !.tries = 0,
                             !.transactions = {}, !.roundId = Null,
                             !.finalStats = [set |-> TRUE, xp |-> json.xp_awarded,
                                             level |-> json.level, streak |-> json.streak],
                             !.loading = FALSE]
            ELSE [det EXCEPT !.canPlay = TRUE, !.lowMsg = FALSE,
                             !.transactions = IF json.items THEN Txs ELSE {},
                             !.roundId = json.round_id,
                             !.tries = IF json.tries_remaining = Absent
                                       THEN INITIAL_TRIES ELSE json.tries_remaining,
                             !.loading = FALSE]
  /\ calls' = [calls EXCEPT ![s] = FreeCall]
  /\ UNCHANGED <<envVars, localVars, starts, ledger, roundVars, cat, catTimers, quiz>>

\* a transaction card pressed
SpendDetective_tapTx(t) ==
  /\ screen = "detective" /\ DetPlayView
  /\ t \in det.transactions /\ t \notin det.locked
  /\ t \in Lowest(det.transactions \ det.locked, DetWindow) \cup {MAX_ANOMALIES + 1}
  /\ det' = [det EXCEPT !.selectedId = IF @ = t THEN Null ELSE t]
  /\ UNCHANGED <<envVars, localVars, starts, ledger, roundVars, calls, cat, catTimers, quiz>>

\* Submit pressed: the request goes to the first guess URL
SpendDetective_onSubmit(maxSubmits) ==
  /\ screen = "detective" /\ DetPlayView
  /\ canSubmit
  /\ HasFree /\ InFlight("submit") < maxSubmits
  /\ calls' = [calls EXCEPT ![FreeSlot] =
        NewCall("submit", "detective",
                [round_id |-> det.roundId, selected_id |-> det.selectedId,
                 foundCount |-> foundCount, totalAnomalies |-> det.totalAnomalies,
                 url |-> 1])]
  /\ UNCHANGED <<envVars, localVars, starts, ledger, roundVars, uiVars>>

\* postJsonWithFallback after a failed attempt: the loop's next URL, or the throw
\* that onSubmit turns into an alert
PostJsonNextUrl(s) ==
  IF calls[s].req.url + 1 \in GUESS_URLS
  THEN [calls EXCEPT ![s] = [NewCall("submit", "detective",
                                     [calls[s].req EXCEPT !.url = @ + 1])
                               EXCEPT !.authorization = calls[s].authorization]]
  ELSE [calls EXCEPT ![s] = FreeCall]

\* postJsonWithFallback: the response is not res.ok (the 404 `continue`, and the
\* throw for any other status, which the loop's own catch swallows)
postJsonWithFallback_notOk(s) ==
  /\ Answered(s, "submit") /\ calls[s].game = "detective"
  /\ calls[s].resp.http # 200
  /\ calls' = PostJsonNextUrl(s)
  /\ UNCHANGED <<envVars, localVars, starts, ledger, roundVars, uiVars>>

\* postJsonWithFallback: fetch rejects, or the body is not JSON
postJsonWithFallback_fetchFails(s) ==
  /\ calls[s].kind = "submit" /\ calls[s].game = "detective"
  /\ calls' = PostJsonNextUrl(s)
  /\ UNCHANGED <<envVars, localVars, starts, ledger, roundVars, uiVars>>

\* tries after `setTries((prev) => Math.min(prev, Number(json.tries_remaining)))`
DetTriesAfter(prev, json) ==
  IF json.tries_remaining # Absent THEN Min(prev, json.tries_remaining) ELSE prev

\* the completed flag after a response: round_complete, or maybeFinishLocally
DetFinished(json, nextCorrect, nextTotal) ==
  json.round_complete \/ (nextTotal # Absent /\ nextCorrect >= nextTotal)

\* onSubmit after postJsonWithFallback returned a body
SpendDetective_onSubmit_resume(s) ==
  /\ Answered(s, "submit") /\ calls[s].game = "detective"
  /\ calls[s].resp.http = 200
  /\ LET json == calls[s].resp
         q == calls[s].req
         wasCorrect == json.new_correct # Absent /\ json.new_correct > 0
         nextCorrect == IF json.total_correct # Absent THEN json.total_correct
                        ELSE q.foundCount + (IF wasCorrect THEN 1 ELSE 0)
         nextTotal == IF json.total_anomalies # Absent THEN json.total_anomalies
                      ELSE q.totalAnomalies
         fin == DetFinished(json, nextCorrect, nextTotal)
     IN det' = [det EXCEPT
          !.tries = DetTriesAfter(@, json),
          !.totalCorrect = IF json.total_correct # Absent THEN json.total_correct
                           ELSE IF wasCorrect THEN @ + json.new_correct ELSE @,
          !.totalAnomalies = IF json.total_anomalies # Absent
                             THEN json.total_anomalies ELSE @,
          !.locked = IF wasCorrect THEN @ \cup {q.selected_id} ELSE @,
          !.selectedId = Null,
          !.reveal = IF fin THEN TRUE ELSE @,
          !.finalStats = IF json.round_complete
                         THEN [set |-> TRUE, xp |-> json.xp_earned,
                               level |-> json.level, streak |-> json.streak]
                         ELSE IF fin
                         THEN [set |-> TRUE,
                               xp |-> IF json.xp_earned # Absent THEN json.xp_earned
                                      ELSE nextCorrect * XP_PER_CORRECT,
                               level |-> json.level, streak |-> json.streak]
                         ELSE @,
          !.completed = IF fin THEN TRUE ELSE @]
  /\ calls' = [calls EXCEPT ![s] = FreeCall]
  /\ UNCHANGED <<envVars, localVars, starts, ledger, roundVars, cat, catTimers, quiz>>

\* startRound's fetch rejects, or the body is not JSON
SpendDetective_startFails(s) ==
  /\ calls[s].kind = "start" /\ calls[s].game = "detective"
  /\ det' = [det EXCEPT !.error = "network", !.loading = FALSE]
  /\ calls' = [calls EXCEPT ![s] = FreeCall]
  /\ UNCHANGED <<envVars, localVars, starts, ledger, roundVars, cat, catTimers, quiz>>

(* ------------------------ Round Engine: quiz ------------------------- *)
NoQuizRound ==
  [id |-> 0, status |-> "none", answered |-> {}, score |-> 0, finalized |-> FALSE]

\* POST /quiz/new
SrvQuizNew(s) ==
  /\ Sent(s, "start") /\ calls[s].game = "quiz" /\ calls[s].authorization
  /\ IF history = "low"
     THEN LET l2 == LedgerAward(ledger, LowDataXp, week) IN
          /\ ledger' = l2
          /\ calls' = Reply(s, LowDataResp(l2, LowDataXp))
          /\ UNCHANGED quizRound
     ELSE /\ quizRound' = [id |-> quizRound.id + 1, status |-> "in_progress",
                           answered |-> {}, score |-> 0, finalized |-> FALSE]
          /\ calls' = Reply(s, PlayableResp(quizRound.id + 1))
          /\ UNCHANGED ledger
  /\ UNCHANGED <<envVars, localVars, starts, catRound, detRound, uiVars>>

\* the round after answering question q with choice i
QuizJudge(r, q, i) ==
  [r EXCEPT !.answered = @ \cup {q},
            !.score = IF i = CorrectIndex(q) THEN @ + 1 ELSE @,
            !.status = IF r.answered \cup {q} = Questions THEN "complete" ELSE @]

AnswerResp(r2, q, i) ==
  [http |-> 200, ok |-> TRUE, is_correct |-> i = CorrectIndex(q),
   correct_index |-> CorrectIndex(q), selected_index |-> i, explanation |-> TRUE,
   questions_answered |-> Cardinality(r2.answered), total_questions |-> NumQuestions,
   quiz_complete |-> r2.status = "complete", error |-> "none"]

\* POST /quiz/answer (the quiz client names no round: the user's current one)
SrvQuizAnswer(s) ==
  /\ Sent(s, "answer") /\ calls[s].game = "quiz" /\ calls[s].authorization
  /\ LET q == calls[s].req IN
     IF quizRound.status # "in_progress"
     THEN /\ calls' = Reply(s, Rejected("round_unavailable"))
          /\ UNCHANGED quizRound
     ELSE IF q.question_id \notin Questions \ quizRound.answered
             \/ q.selected_index \notin Choices
     THEN /\ calls' = Reply(s, Rejected("malformed_selection"))
          /\ UNCHANGED quizRound
     ELSE LET r2 == QuizJudge(quizRound, q.question_id, q.selected_index) IN
          /\ quizRound' = r2
          /\ calls' = Reply(s, AnswerResp(r2, q.question_id, q.selected_index))
  /\ UNCHANGED <<envVars, localVars, starts, ledger, catRound, detRound, uiVars>>

\* variant: every complete call on a terminal round is scored and awarded
QuizFinalizable_repeat(r) == r.status = "complete"

\* may the quiz round r be finalized (scored and awarded) now?
QuizFinalizable(r) == r.status = "complete" /\ ~r.finalized

CompleteResp(r, l2) ==
  [http |-> 200, ok |-> TRUE, score |-> r.score, total |-> NumQuestions,
   accuracy_pct |-> (r.score * 100) \div NumQuestions,
   xp_earned |-> XP_PER_CORRECT * r.score, total_xp |-> l2.total_xp,
   level |-> LevelOf(l2.total_xp), streak |-> l2.streak, error |-> "none"]

\* POST /quiz/complete
SrvQuizComplete(s) ==
  /\ Sent(s, "complete") /\ calls[s].game = "quiz" /\ calls[s].authorization
  /\ IF QuizFinalizable(quizRound)
     THEN LET l2 == LedgerAward(ledger, XP_PER_CORRECT * quizRound.score, week) IN
          /\ ledger' = l2
          /\ quizRound' = [quizRound EXCEPT !.finalized = TRUE]
          /\ calls' = Reply(s, CompleteResp(quizRound, l2))
     ELSE /\ calls' = Reply(s, Rejected("round_unavailable"))
          /\ UNCHANGED <<ledger, quizRound>>
  /\ UNCHANGED <<envVars, localVars, starts, catRound, detRound, uiVars>>

(* ----------------------- SmartSaverQuiz (quiz screen) ---------------- *)
NoFeedback == [set |-> FALSE, isCorrect |-> FALSE, correctIndex |-> Absent]
NoResults == [set |-> FALSE, score |-> Absent, xp_earned |-> Absent, total_xp |-> Absent,
              level |-> Absent, streak |-> Absent]
NoLowData == [set |-> FALSE, xp_awarded |-> Absent, level |-> Absent, streak |-> Absent]

QuizInitial ==
  [questions |-> <<>>, currentIndex |-> 0, selectedIndex |-> Absent,
   feedbackState |-> NoFeedback, loading |-> TRUE, submitting |-> FALSE,
   error |-> "none", finalResults |-> NoResults, lowDataMessage |-> NoLowData]

currentQuestion ==
  IF quiz.currentIndex + 1 \in DOMAIN quiz.questions
  THEN quiz.questions[quiz.currentIndex + 1] ELSE Null
\* variant: every question counts as the last one
isLastQuestion_any == quiz.currentIndex <= Len(quiz.questions) - 1
isLastQuestion == quiz.currentIndex = Len(quiz.questions) - 1

\* which of the component's early returns renders
QuizErrorView ==
  /\ ~quiz.loading /\ quiz.error # "none" /\ currentQuestion = Null
  /\ ~quiz.lowDataMessage.set /\ ~quiz.finalResults.set
QuizLowView == ~quiz.loading /\ ~QuizErrorView /\ quiz.lowDataMessage.set
QuizResultsView ==
  ~quiz.loading /\ ~QuizErrorView /\ ~quiz.lowDataMessage.set /\ quiz.finalResults.set
QuizView ==
  ~quiz.loading /\ ~QuizErrorView /\ ~quiz.lowDataMessage.set /\ ~quiz.finalResults.set

\* the synchronous head of loadQuiz
QuizLoadReset ==
  [quiz EXCEPT !.loading = TRUE, !.error = "none", !.currentIndex = 0,
               !.selectedIndex = Absent, !.feedbackState = NoFeedback,
               !.finalResults = NoResults, !.lowDataMessage = NoLowData]

\* Try Again / Check Again / Play Again pressed
SmartSaverQuiz_loadQuiz ==
  /\ screen = "quiz"
  /\ QuizErrorView \/ QuizLowView \/ QuizResultsView
  /\ starts < MaxStarts /\ HasFree
  /\ getFirebaseIdToken
  /\ quiz' = QuizLoadReset
  /\ calls' = [calls EXCEPT ![FreeSlot] = NewCall("start", "quiz", [round_id |-> Null])]
  /\ starts' = starts + 1
  /\ UNCHANGED <<envVars, localVars, ledger, roundVars, cat, catTimers, det>>

\* variant: low data is recognized only without a message
QuizLowData_noMessage(res) == res.insufficient_data /\ ~res.message

\* does loadQuiz take a can_play=false response for the low-data outcome?
QuizLowData(res) == res.insufficient_data /\ res.message

\* loadQuiz after `await startNewQuiz()`
SmartSaverQuiz_loadQuiz_resume(s) ==
  /\ Answered(s, "start") /\ calls[s].game = "quiz"
  /\ LET res == calls[s].resp IN
     quiz' = IF ~res.ok
             THEN [quiz EXCEPT !.error = "server", !.loading = FALSE]
             ELSE IF ~res.can_play
             THEN IF QuizLowData(res)
                  THEN [quiz EXCEPT !.lowDataMessage =
                                       [set |-> TRUE, xp_awarded |-> res.xp_awarded,
                                        level |-> res.level, streak |-> res.streak],
                                    !.loading = FALSE]
                  ELSE [quiz EXCEPT !.error = "cannot_play", !.loading = FALSE]
             ELSE IF ~res.items
             THEN [quiz EXCEPT !.error = "no_questions", !.loading = FALSE]
             ELSE [quiz EXCEPT !.questions = [i \in 1..NumQuestions |-> i],
                               !.loading = FALSE]
  /\ calls' = [calls EXCEPT ![s] = FreeCall]
  /\ UNCHANGED <<envVars, localVars, starts, ledger, roundVars, cat, catTimers, det>>

\* a choice pressed
SmartSaverQuiz_selectChoice(i) ==
  /\ screen = "quiz" /\ QuizView
  /\ currentQuestion # Null
  /\ ~quiz.feedbackState.set
  /\ quiz.selectedIndex # i
  /\ quiz' = [quiz EXCEPT !.selectedIndex = i]
  /\ UNCHANGED <<envVars, localVars, starts, ledger, roundVars, calls, cat, catTimers, det>>

\* Check Answer pressed
SmartSaverQuiz_handleSubmitAnswer ==
  /\ screen = "quiz" /\ QuizView
  /\ quiz.selectedIndex # Absent /\ ~quiz.submitting
  /\ currentQuestion # Null /\ ~quiz.feedbackState.set
  /\ HasFree
  /\ getFirebaseIdToken
  /\ quiz' = [quiz EXCEPT !.submitting = TRUE, !.error = "none"]
  /\ calls' = [calls EXCEPT ![FreeSlot] =
        NewCall("answer", "quiz",
                [question_id |-> currentQuestion, selected_index |-> quiz.selectedIndex])]
  /\ UNCHANGED <<envVars, localVars, starts, ledger, roundVars, cat, catTimers, det>>

\* handleSubmitAnswer after `await answerQuestion(...)`
SmartSaverQuiz_handleSubmitAnswer_resume(s) ==
  /\ Answered(s, "answer") /\ calls[s].game = "quiz"
  /\ LET res == calls[s].resp IN
     quiz' = IF res.ok
             THEN [quiz EXCEPT !.feedbackState =
                                  [set |-> TRUE, isCorrect |-> res.is_correct,
                                   correctIndex |-> res.correct_index],
                               !.submitting = FALSE]
             ELSE [quiz EXCEPT !.error = "server", !.submitting = FALSE]
  /\ calls' = [calls EXCEPT ![s] = FreeCall]
  /\ UNCHANGED <<envVars, localVars, starts, ledger, roundVars, cat, catTimers, det>>

\* Next Question pressed (not the last question)
SmartSaverQuiz_handleNext_advance ==
  /\ screen = "quiz" /\ QuizView
  /\ quiz.feedbackState.set /\ ~quiz.submitting
  /\ ~isLastQuestion
  /\ quiz' = [quiz EXCEPT !.currentIndex = @ + 1, !.selectedIndex = Absent,
                          !.feedbackState = NoFeedback]
  /\ UNCHANGED <<envVars, localVars, starts, ledger, roundVars, calls, cat, catTimers, det>>

\* See Results pressed (the last question): the 'complete' request
SmartSaverQuiz_handleNext_complete ==
  /\ screen = "quiz" /\ QuizView
  /\ quiz.feedbackState.set /\ ~quiz.submitting
  /\ isLastQuestion
  /\ HasFree
  /\ getFirebaseIdToken
  /\ quiz' = [quiz EXCEPT !.submitting = TRUE]
  /\ calls' = [calls EXCEPT ![FreeSlot] = NewCall("complete", "quiz", [round_id |-> Null])]
  /\ UNCHANGED <<envVars, localVars, starts, ledger, roundVars, cat, catTimers, det>>

\* handleNext after `await completeQuiz()`
SmartSaverQuiz_handleNext_resume(s) ==
  /\ Answered(s, "complete") /\ calls[s].game = "quiz"
  /\ LET res == calls[s].resp IN
     quiz' = IF res.ok
             THEN [quiz EXCEPT !.finalResults =
                                  [set |-> TRUE, score |-> res.score,
                                   xp_earned |-> res.xp_earned, total_xp |-> res.total_xp,
                                   level |-> res.level, streak |-> res.streak],
                               !.submitting = FALSE]
             ELSE [quiz EXCEPT !.error = "server", !.submitting = FALSE]
  /\ calls' = [calls EXCEPT ![s] = FreeCall]
  /\ UNCHANGED <<envVars, localVars, starts, ledger, roundVars, cat, catTimers, det>>

\* fetchJson throws: the 15 s abort ("timeout") or a failed fetch ("network")
SmartSaverQuiz_fetchFails(s) ==
  /\ ~IsFree(s) /\ calls[s].game = "quiz"
  /\ \E e \in {"timeout", "network"} :
       quiz' = IF calls[s].kind = "start"
               THEN [quiz EXCEPT !.error = e, !.loading = FALSE]
               ELSE [quiz EXCEPT !.error = e, !.submitting = FALSE]
  /\ calls' = [calls EXCEPT ![s] = FreeCall]
  /\ UNCHANGED <<envVars, localVars, starts, ledger, roundVars, cat, catTimers, det>>

(* ---------------- TriviaTestScreen (trivia-test.tsx) ------------------ *)
\* sampleQuestions(n): n questions of the bank, the choices of each shuffled; a
\* question is kept by the place its correct choice was shuffled to
sampleQuestions(n) == [1..n -> [correctIndex : Choices]]

NoResult == [set |-> FALSE, score |-> 0, total |-> 0, accuracy |-> [num |-> 0, den |-> 1],
             xpEarned |-> 0, level |-> 0, streak |-> 0]

\* the useState cells and the pressLock ref of a screen that has not loaded yet
TriviaInitial ==
  [questions |-> <<>>, index |-> 0, selected |-> Absent, checked |-> FALSE,
   answers |-> [i \in 0..(TRIVIA_QUESTIONS - 1) |-> Absent],
   result |-> NoResult, pressLock |-> FALSE]

\* load(): a fresh sample, every other cell back to its first value
TriviaLoaded(t, qs) == [TriviaInitial EXCEPT !.questions = qs, !.pressLock = t.pressLock]

TriviaDone == trivia.index >= Len(trivia.questions)
\* q = questions[index]
TriviaQ == trivia.questions[trivia.index + 1]

\* the choice rendered as correct: isCorrect = checked && q.correctIndex === i
TriviaShownCorrect ==
  IF ~TriviaDone /\ trivia.checked THEN {TriviaQ.correctIndex} ELSE {}

\* Play Again
TriviaTest_onRestart ==
  /\ TriviaDone /\ trivia.result.set
  /\ \E qs \in sampleQuestions(TRIVIA_QUESTIONS) : trivia' = TriviaLoaded(trivia, qs)
  /\ UNCHANGED <<envVars, home, starts, ledger, roundVars, calls, uiVars>>

\* a choice is pressed: !checked && setSelected(i)
TriviaTest_select(i) ==
  /\ ~TriviaDone
  /\ ~trivia.checked
  /\ trivia' = [trivia EXCEPT !.selected = i]
  /\ UNCHANGED <<envVars, home, starts, ledger, roundVars, calls, uiVars>>

TriviaTest_onCheck ==
  /\ ~TriviaDone
  /\ ~trivia.checked
  /\ ~trivia.pressLock
  /\ trivia.selected # Absent
  /\ trivia' = [trivia EXCEPT !.checked = TRUE, !.pressLock = TRUE]
  /\ UNCHANGED <<envVars, home, starts, ledger, roundVars, calls, uiVars>>

\* answers[i] === questions[i].correctIndex, with the answers of the render
TriviaEarlier(t) ==
  Cardinality({i \in 0..(Len(t.questions) - 1) : t.answers[i] = t.questions[i + 1].correctIndex})

\* score = earlier + (selected === q.correctIndex) - (answers[index] === q.correctIndex)
TriviaScore_earlierOnly(t) == TriviaEarlier(t)

TriviaScore(t) ==
  LET q == t.questions[t.index + 1]
  IN  TriviaEarlier(t) + (IF t.selected = q.correctIndex THEN 1 ELSE 0)
                       - (IF t.answers[t.index] = q.correctIndex THEN 1 ELSE 0)

\* level: Math.max(1, Math.floor(1 + accuracy * 10)) with accuracy = score / total
TriviaLevel(score, n) ==
  IF n = 0 THEN 1
  ELSE LET l == 1 + ((10 * score) \div n) IN IF l >= 1 THEN l ELSE 1

TriviaResult(t) ==
  LET n == Len(t.questions)
      score == TriviaScore(t)
  IN  [set |-> TRUE, score |-> score, total |-> n,
       accuracy |-> IF n # 0 THEN [num |-> score, den |-> n] ELSE [num |-> 0, den |-> 1],
       xpEarned |-> score * XP_PER_CORRECT,
       level |-> TriviaLevel(score, n),
       streak |-> IF n # 0 /\ 10 * score >= 6 * n THEN 3 ELSE 0]

\* Next, or Submit on the last question; the effect on [index] then clears
\* selected and checked
TriviaTest_onNextOrSubmit ==
  /\ ~TriviaDone
  /\ trivia.checked
  /\ ~trivia.pressLock
  /\ LET isLast == trivia.index = Len(trivia.questions) - 1
     IN  trivia' = [trivia EXCEPT
           !.pressLock = TRUE,
           !.answers = IF trivia.selected # Absent
                       THEN [trivia.answers EXCEPT ![trivia.index] = trivia.selected]
                       ELSE trivia.answers,
           !.result = IF isLast THEN TriviaResult(trivia) ELSE trivia.result,
           !.index = trivia.index + 1,
           !.selected = Absent,
           !.checked = FALSE]
  /\ UNCHANGED <<envVars, home, starts, ledger, roundVars, calls, uiVars>>

\* setTimeout(() => (pressLock.current = false), 250)
TriviaTest_pressLockTimeout ==
  /\ trivia.pressLock
  /\ trivia' = [trivia EXCEPT !.pressLock = FALSE]
  /\ UNCHANGED <<envVars, home, starts, ledger, roundVars, calls, uiVars>>

(* ---------------------- GamesHome (connections.tsx) ------------------- *)
tiers ==
  << [name |-> "Penny Pincher", min |-> 0],
     [name |-> "Savvy Saver", min |-> 500],
     [name |-> "Budget Master", min |-> 1500],
     [name |-> "Portfolio Pro", min |-> 3500],
     [name |-> "Investment Expert", min |-> 7000],
     [name |-> "Finance Legend", min |-> 12000] >>

\* [...seq].reverse()
Reverse(seq) == [i \in 1..Len(seq) |-> seq[Len(seq) + 1 - i]]

\* the 0-based place of the first tier of seq that xp reaches, -1 when none
findIndex(seq, xp) ==
  LET hits == {i \in 1..Len(seq) : xp >= seq[i].min}
  IN  IF hits = {} THEN 0 - 1 ELSE (CHOOSE i \in hits : \A j \in hits : i <= j) - 1

TierIndexOf_unreversed(xp) ==
  IF findIndex(tiers, xp) >= 0 THEN Len(tiers) - 1 - findIndex(tiers, xp) ELSE 0

\* currentTierIndex, for an xp
TierIndexOf(xp) ==
  IF findIndex(Reverse(tiers), xp) >= 0
  THEN Len(tiers) - 1 - findIndex(Reverse(tiers), xp)
  ELSE 0

currentTierIndex == TierIndexOf(home.xp)
currentTier == tiers[currentTierIndex + 1]
\* nextTier ? Math.max(0, nextTier.min - xp) : 0
toNext ==
  IF currentTierIndex + 1 < Len(tiers)
  THEN (IF tiers[currentTierIndex + 2].min - home.xp >= 0
        THEN tiers[currentTierIndex + 2].min - home.xp ELSE 0)
  ELSE 0

\* no response of the profile endpoint has arrived
NoProfileRes == [ok |-> FALSE, body |-> "none", total_xp |-> Absent]

\* the useState cells of useXP, whether its fetch is out, and the response that
\* has arrived for it
HomeInitial == [xp |-> 0, loading |-> FALSE, pending |-> FALSE, res |-> NoProfileRes]

\* the Games tab comes into focus
useXP_loadProfile ==
  /\ ~home.pending
  /\ home' = [home EXCEPT !.loading = TRUE, !.pending = TRUE]
  /\ UNCHANGED <<envVars, trivia, starts, ledger, roundVars, calls, uiVars>>

\* what GET /api/minigame/profile can answer: the total the ledger holds, or a
\* status that is not 2xx with a JSON body, without a body, or with a body that
\* is not JSON
ProfileResponses ==
  {[ok |-> TRUE, body |-> "json", total_xp |-> ledger.total_xp]}
    \cup {[ok |-> FALSE, body |-> b, total_xp |-> Absent] : b \in {"json", "empty", "text"}}

\* GET /api/minigame/profile
SrvProfile ==
  /\ home.pending /\ home.res = NoProfileRes
  /\ \E r \in ProfileResponses : home' = [home EXCEPT !.res = r]
  /\ UNCHANGED <<envVars, trivia, starts, ledger, roundVars, calls, uiVars>>

\* loadProfile after `await res.text()` with a body: JSON.parse, the res.ok
\* check, setXp(data.total_xp ?? 0); a throw goes to the catch, which keeps xp
useXP_loadProfile_resume ==
  /\ home.pending /\ home.res.body \in {"json", "text"}
  /\ home' = [home EXCEPT
       !.xp = IF home.res.body = "text" \/ ~home.res.ok THEN @
              ELSE IF home.res.total_xp = Absent THEN 0 ELSE home.res.total_xp,
       !.loading = FALSE, !.pending = FALSE, !.res = NoProfileRes]
  /\ UNCHANGED <<envVars, trivia, starts, ledger, roundVars, calls, uiVars>>

\* loadProfile after `await res.text()` with an empty body: setXp(0), before
\* the status is looked at
useXP_loadProfile_empty ==
  /\ home.pending /\ home.res.body = "empty"
  /\ home' = [home EXCEPT !.xp = 0, !.loading = FALSE, !.pending = FALSE,
                          !.res = NoProfileRes]
  /\ UNCHANGED <<envVars, trivia, starts, ledger, roundVars, calls, uiVars>>

\* fetch rejects: the catch keeps xp
useXP_loadProfile_fails ==
  /\ home.pending
  /\ home' = [home EXCEPT !.loading = FALSE, !.pending = FALSE, !.res = NoProfileRes]
  /\ UNCHANGED <<envVars, trivia, starts, ledger, roundVars, calls, uiVars>>

(* -------------------------- authentication --------------------------- *)
\* the authentication error of an endpoint
AuthError == [Rejected("unauthenticated") EXCEPT !.http = 401]

\* any endpoint, for a request without a valid bearer token
SrvAuthError(s) ==
  /\ ~IsFree(s) /\ calls[s].phase = "sent" /\ ~calls[s].authorization
  /\ calls' = Reply(s, AuthError)
  /\ UNCHANGED <<envVars, localVars, starts, ledger, roundVars, uiVars>>

\* loadQuiz when getFirebaseToken throws "Not authenticated": no request is made
SmartSaverQuiz_loadQuiz_noToken ==
  /\ screen = "quiz"
  /\ QuizErrorView \/ QuizLowView \/ QuizResultsView
  /\ ~getFirebaseIdToken
  /\ quiz' = [QuizLoadReset EXCEPT !.error = "auth", !.loading = FALSE]
  /\ UNCHANGED <<envVars, localVars, starts, ledger, roundVars, calls, cat, catTimers, det>>

\* handleSubmitAnswer when getFirebaseToken throws
SmartSaverQuiz_handleSubmitAnswer_noToken ==
  /\ screen = "quiz" /\ QuizView
  /\ quiz.selectedIndex # Absent /\ ~quiz.submitting
  /\ currentQuestion # Null /\ ~quiz.feedbackState.set
  /\ ~getFirebaseIdToken
  /\ quiz' = [quiz EXCEPT !.error = "auth", !.submitting = FALSE]
  /\ UNCHANGED <<envVars, localVars, starts, ledger, roundVars, calls, cat, catTimers, det>>

\* handleNext on the last question when getFirebaseToken throws
SmartSaverQuiz_handleNext_noToken ==
  /\ screen = "quiz" /\ QuizView
  /\ quiz.feedbackState.set /\ ~quiz.submitting
  /\ isLastQuestion
  /\ ~getFirebaseIdToken
  /\ quiz' = [quiz EXCEPT !.error = "auth", !.submitting = FALSE]
  /\ UNCHANGED <<envVars, localVars, starts, ledger, roundVars, calls, cat, catTimers, det>>

\* the user signs out, or the token is revoked
SignOut ==
  /\ user = "signed_in"
  /\ user' = "signed_out"
  /\ UNCHANGED <<localVars, screen, history, week, ledgerTxn, starts, ledger, roundVars,
                 calls, uiVars>>

(* --------------------------- environment ----------------------------- *)
\* the bank link delivers more transactions
BankSync ==
  /\ history = "low"
  /\ history' = "enough"
  /\ UNCHANGED <<localVars, user, screen, week, ledgerTxn, starts, ledger, roundVars, calls, uiVars>>

\* a calendar week ends
NextWeek ==
  /\ week < MaxWeek
  /\ week' = week + 1
  /\ UNCHANGED <<localVars, user, screen, history, ledgerTxn, starts, ledger, roundVars, calls, uiVars>>

(* --------------------------- specification --------------------------- *)
\* a screen has just mounted: its useEffect has issued the first start call
Init ==
  /\ screen \in Games
  /\ starts = 1
  /\ user = "signed_in"
  /\ history \in {"low", "enough"}
  /\ week = 0
  /\ ledger = [total_xp |-> 0, streak |-> 0, lastPlay |-> Absent]
  /\ ledgerTxn = NoTxn
  /\ catRound = NoRound
  /\ detRound = NoDetRound
  /\ quizRound = NoQuizRound
  /\ cat = CatInitial
  /\ catTimers = 0
  /\ det = DetInitial
  /\ quiz = QuizInitial
  /\ trivia = TriviaInitial
  /\ home = HomeInitial
  /\ calls = [s \in Slots |-> IF s = 1 THEN NewCall("start", screen, [round_id |-> Null])
                              ELSE FreeCall]

\* a start requested from a rendered screen
Restarts ==
  \/ Connections_startRound
  \/ SpendDetective_startRound
  \/ SmartSaverQuiz_loadQuiz

\* the other steps of the game screens and of the backend, with at most n submit
\* calls of a screen in flight at a time
Play(n) ==
  \/ \E s \in Slots : Connections_startRound_resume(s)
  \/ \E c \in Tiles : Connections_tapCategory(c)
  \/ \E a \in Tiles : Connections_tapAmount(a)
  \/ Connections_onCheck(n)
  \/ \E s \in Slots : Connections_onCheck_resume(s)
  \/ Connections_feedbackTimeout
  \/ \E s \in Slots : Connections_fetchFails(s)
  \/ \E s \in Slots : SrvCatStart(s)
  \/ \E s \in Slots : SrvCatMatch(s)
  \/ \E s \in Slots : SpendDetective_startRound_resume(s)
  \/ \E t \in Txs : SpendDetective_tapTx(t)
  \/ SpendDetective_onSubmit(n)
  \/ \E s \in Slots : postJsonWithFallback_notOk(s)
  \/ \E s \in Slots : postJsonWithFallback_fetchFails(s)
  \/ \E s \in Slots : SpendDetective_onSubmit_resume(s)
  \/ \E s \in Slots : SpendDetective_startFails(s)
  \/ \E s \in Slots : SrvDetStart(s)
  \/ \E s \in Slots : SrvDetGuess(s)
  \/ \E s \in Slots : SmartSaverQuiz_loadQuiz_resume(s)
  \/ \E i \in Choices : SmartSaverQuiz_selectChoice(i)
  \/ SmartSaverQuiz_handleSubmitAnswer
  \/ \E s \in Slots : SmartSaverQuiz_handleSubmitAnswer_resume(s)
  \/ SmartSaverQuiz_handleNext_advance
  \/ SmartSaverQuiz_handleNext_complete
  \/ \E s \in Slots : SmartSaverQuiz_handleNext_resume(s)
  \/ \E s \in Slots : SmartSaverQuiz_fetchFails(s)
  \/ \E s \in Slots : SrvQuizNew(s)
  \/ \E s \in Slots : SrvQuizAnswer(s)
  \/ \E s \in Slots : SrvQuizComplete(s)
  \/ BankSync

\* one submit at a time, with restarts and week changes
Next == Play(1) \/ Restarts \/ NextWeek

Spec == Init /\ [][Next]_vars

\* the round of one mount, with submits racing each other
NextRace == Play(MaxInFlight)

SpecRace == Init /\ [][NextRace]_vars

\* the Progression Ledger alone: NumFinalizers rounds of one user finish together
InitLedger ==
  /\ screen \in Games
  /\ starts = 0
  /\ user = "signed_in"
  /\ history = "enough"
  /\ week \in 0..MaxWeek
  /\ \E b \in 0..MaxBase :
       /\ ledger = [total_xp |-> XP_PER_CORRECT * b, streak |-> 0, lastPlay |-> Absent]
       /\ \E sc \in [Finalizers -> 0..MaxScore] :
            ledgerTxn = [base |-> XP_PER_CORRECT * b, lock |-> 0,
                         ops |-> [f \in Finalizers |-> IdleOp(XP_PER_CORRECT * sc[f])]]
  /\ catRound = NoRound
  /\ detRound = NoDetRound
  /\ quizRound = NoQuizRound
  /\ cat = CatInitial
  /\ catTimers = 0
  /\ det = DetInitial
  /\ quiz = QuizInitial
  /\ trivia = TriviaInitial
  /\ home = HomeInitial
  /\ calls = [s \in Slots |-> FreeCall]

NextLedger ==
  \/ \E f \in Finalizers : LedgerBegin(f)
  \/ \E f \in Finalizers : LedgerCommit(f)

SpecLedger == InitLedger /\ [][NextLedger]_vars

\* the local quiz alone: the screen has mounted and its effect has run load()
InitTrivia ==
  /\ screen = "trivia"
  /\ starts = 0
  /\ user = "signed_in"
  /\ history = "enough"
  /\ week = 0
  /\ ledger = [total_xp |-> 0, streak |-> 0, lastPlay |-> Absent]
  /\ ledgerTxn = NoTxn
  /\ catRound = NoRound
  /\ detRound = NoDetRound
  /\ quizRound = NoQuizRound
  /\ cat = CatInitial
  /\ catTimers = 0
  /\ det = DetInitial
  /\ quiz = QuizInitial
  /\ \E qs \in sampleQuestions(TRIVIA_QUESTIONS) : trivia = TriviaLoaded(TriviaInitial, qs)
  /\ home = HomeInitial
  /\ calls = [s \in Slots |-> FreeCall]

NextTrivia ==
  \/ \E i \in Choices : TriviaTest_select(i)
  \/ TriviaTest_onCheck
  \/ TriviaTest_onNextOrSubmit
  \/ TriviaTest_pressLockTimeout
  \/ TriviaTest_onRestart

SpecTrivia == InitTrivia /\ [][NextTrivia]_vars

\* the totals a profile is loaded with: every hundred up to MaxXpHundreds, and
\* the totals next to a tier's minimum
XpValues ==
  {100 * k : k \in 0..MaxXpHundreds}
    \cup {tiers[i].min + d : i \in 2..Len(tiers), d \in {0 - 1, 1}}

\* the Games tab alone, of a user whose ledger holds some total
InitHome ==
  /\ screen = "home"
  /\ starts = 0
  /\ user = "signed_in"
  /\ history = "enough"
  /\ week = 0
  /\ \E x \in XpValues : ledger = [total_xp |-> x, streak |-> 0, lastPlay |-> Absent]
  /\ ledgerTxn = NoTxn
  /\ catRound = NoRound
  /\ detRound = NoDetRound
  /\ quizRound = NoQuizRound
  /\ cat = CatInitial
  /\ catTimers = 0
  /\ det = DetInitial
  /\ quiz = QuizInitial
  /\ trivia = TriviaInitial
  /\ home = HomeInitial
  /\ calls = [s \in Slots |-> FreeCall]

NextHome ==
  \/ useXP_loadProfile
  \/ SrvProfile
  \/ useXP_loadProfile_resume
  \/ useXP_loadProfile_empty
  \/ useXP_loadProfile_fails

SpecHome == InitHome /\ [][NextHome]_vars

\* what the event loop and the timers guarantee: a response that has arrived is
\* taken by the handler that awaits it, a setTimeout callback runs, and the
\* abort timer of fetchJson ends a quiz call that is still out. Nothing makes
\* the backend answer, and nothing makes a plain fetch reject.
LiveFairness ==
  /\ \A s \in Slots :
       /\ WF_vars(Connections_startRound_resume(s))
       /\ WF_vars(Connections_onCheck_resume(s))
       /\ WF_vars(SpendDetective_startRound_resume(s))
       /\ WF_vars(SpendDetective_onSubmit_resume(s))
       /\ WF_vars(postJsonWithFallback_notOk(s))
       /\ WF_vars(SmartSaverQuiz_loadQuiz_resume(s))
       /\ WF_vars(SmartSaverQuiz_handleSubmitAnswer_resume(s))
       /\ WF_vars(SmartSaverQuiz_handleNext_resume(s))
       /\ WF_vars(SmartSaverQuiz_fetchFails(s))
  /\ WF_vars(Connections_feedbackTimeout)

\* the round of one mount, one submit at a time, under that scheduling
SpecLive == Init /\ [][Play(1)]_vars /\ LiveFairness

\* one submit at a time, with restarts, and a user who may lose the token
NextAuth ==
  \/ Play(1)
  \/ Restarts
  \/ SignOut
  \/ \E s \in Slots : SrvAuthError(s)
  \/ SmartSaverQuiz_loadQuiz_noToken
  \/ SmartSaverQuiz_handleSubmitAnswer_noToken
  \/ SmartSaverQuiz_handleNext_noToken

SpecAuth == Init /\ [][NextAuth]_vars
(* ------------------------------ claims ------------------------------- *)
\* a call in slot s of kind k is answered by the backend in this step
Answers(s, k, g) ==
  /\ Sent(s, k) /\ calls[s].game = g
  /\ calls'[s].kind = k /\ calls'[s].phase = "answered"

\* C1: within a round tries_remaining never increases from one observed state to
\* the next and stays within 0..3, on the engine and on the screens that show it.
C1_TriesNeverIncrease ==
  [][/\ cat'.tries \in 0..INITIAL_TRIES /\ det'.tries \in 0..INITIAL_TRIES
     /\ cat'.roundId = cat.roundId => cat'.tries <= cat.tries
     /\ det'.roundId = det.roundId => det'.tries <= det.tries
     /\ catRound'.id = catRound.id => catRound'.tries <= catRound.tries
     /\ detRound'.id = detRound.id => detRound'.tries <= detRound.tries]_vars

\* C2: a finalize (the quiz 'complete' call) on a terminal round adds the round's
\* XP delta to total_xp exactly once; every later call on the same round is
\* refused and leaves total_xp, level and streak as they were.
C2_FinalizeOnce ==
  [][\A s \in Slots :
       Answers(s, "complete", "quiz") =>
         IF quizRound.status = "complete" /\ ~quizRound.finalized
         THEN /\ ledger'.total_xp = ledger.total_xp + XP_PER_CORRECT * quizRound.score
              /\ quizRound'.finalized
              /\ calls'[s].resp.ok
         ELSE /\ ledger' = ledger
              /\ LevelOf(ledger'.total_xp) = LevelOf(ledger.total_xp)
              /\ quizRound' = quizRound
              /\ ~calls'[s].resp.ok]_vars

\* C2 witness: the client repeated the 'complete' call after the first attempt's
\* response was lost; the round was already finalized with a positive award.
C2_RepeatRefused ==
  \E s \in Slots :
    /\ Answered(s, "complete") /\ ~calls[s].resp.ok
    /\ quizRound.finalized /\ quizRound.score > 0
    /\ ledger.total_xp = XP_PER_CORRECT * quizRound.score

\* C3: a submit against a round that is not in_progress (unknown, abandoned,
\* complete or exhausted) is answered 'round unavailable' and changes neither the
\* round nor the ledger; the screen that receives the refusal keeps its solved
\* items and completion flag and shows tries within 0..3.
C3_RejectUnavailable ==
  [][\A s \in Slots :
       /\ (Answers(s, "submit", "categories")
           /\ (calls[s].req.round_id # catRound.id \/ catRound.status # "in_progress"))
          => /\ ~calls'[s].resp.ok /\ calls'[s].resp.error = "round_unavailable"
             /\ catRound' = catRound /\ ledger' = ledger
       /\ (Answers(s, "submit", "detective") /\ calls[s].req.url \in LiveGuessUrls
           /\ (calls[s].req.round_id # detRound.id \/ detRound.status # "in_progress"))
          => /\ ~calls'[s].resp.ok /\ calls'[s].resp.error = "round_unavailable"
             /\ detRound' = detRound /\ ledger' = ledger
       /\ (Answers(s, "answer", "quiz") /\ quizRound.status # "in_progress")
          => /\ ~calls'[s].resp.ok /\ calls'[s].resp.error = "round_unavailable"
             /\ quizRound' = quizRound /\ ledger' = ledger
       /\ (Connections_onCheck_resume(s) /\ calls[s].resp.error = "round_unavailable")
          => /\ cat'.tries \in 0..INITIAL_TRIES /\ cat'.solved = cat.solved
             /\ cat'.completed = cat.completed
       /\ (SpendDetective_onSubmit_resume(s)
           /\ calls[s].resp.error = "round_unavailable")
          => /\ det'.tries \in 0..det.tries /\ det'.totalCorrect = det.totalCorrect
             /\ det'.locked = det.locked /\ det'.completed = det.completed]_vars

\* C3 witness: the screen has taken the refusal of a submit to an exhausted round.
C3_RefusalTaken ==
  /\ screen = "categories" /\ catRound.status = "exhausted"
  /\ cat.roundId = catRound.id /\ cat.feedback = "wrong" /\ cat.tries > 0
  /\ \A s \in Slots : IsFree(s)

\* C4: a round with tries_remaining = 0 and unsolved items is never reported as
\* complete (detective screen: the Completed! card).
C4_ExhaustedNeverComplete ==
  ~(/\ screen = "detective" /\ DetCompletedView
    /\ det.tries = 0
    /\ det.totalAnomalies # Absent /\ det.totalCorrect < det.totalAnomalies
    /\ det.roundId = detRound.id /\ detRound.status = "exhausted")

\* C5: two submissions of one round processed concurrently leave the tries a
\* one-after-the-other processing leaves: once both outcomes are taken and no
\* submit is outstanding, the tries shown are the tries the round has.
C5_RacingSubmitsSerializable ==
  [][\A s \in Slots :
       (/\ Connections_onCheck_resume(s)
        /\ calls[s].resp.ok
        /\ calls[s].req.round_id = catRound.id /\ cat.roundId = catRound.id
        /\ \A t \in Slots : calls'[t].kind # "submit"
        /\ catTimers' = 2)
       => cat'.tries = catRound.tries]_vars

\* C6: NumFinalizers rounds of one user finalized together with XP deltas a, b, ...
\* leave total_xp = previous total_xp + a + b + ... under every interleaving of
\* the ledger updates.
C6_NoLostDelta ==
  LET fin == {f \in Finalizers : ledgerTxn.ops[f].pc = "done"} IN
  /\ ledgerTxn.lock = 0 => ledger.total_xp = ledgerTxn.base + SumDeltas(ledgerTxn.ops, fin)
  /\ fin = Finalizers =>
       ledger.total_xp = ledgerTxn.base + SumDeltas(ledgerTxn.ops, Finalizers)

\* C6 witness: every finalizer is done, each with a positive delta, on a ledger
\* that held XP before.
C6_AllFinalized ==
  /\ \A f \in Finalizers : ledgerTxn.ops[f].pc = "done" /\ ledgerTxn.ops[f].delta > 0
  /\ ledgerTxn.base > 0
  /\ ledger.total_xp > ledgerTxn.base

\* C7: after a start the screen holds either a fully initialized round (a round
\* id and the full item set) or no round at all, never a playable round without
\* an id or without items.
C7_NoPartialRound ==
  /\ cat.canPlay => cat.roundId # Null /\ cat.tiles = Tiles
  /\ det.canPlay => det.roundId # Null /\ det.transactions = Txs
  /\ catRound.status = "in_progress" => catRound.id > 0
  /\ detRound.status = "in_progress" => detRound.id > 0

\* C8: a start for a user with too little history is answered can_play = false
\* with xp_awarded >= 0 and a total_xp equal to the total before the call plus
\* xp_awarded, which is also what the ledger then holds.
C8_LowDataGrant ==
  [][\A s \in Slots : \A g \in Games :
       (Answers(s, "start", g) /\ history = "low")
       => LET r == calls'[s].resp IN
          /\ r.ok /\ ~r.can_play
          /\ r.xp_awarded >= 0
          /\ r.total_xp = ledger.total_xp + r.xp_awarded
          /\ ledger'.total_xp = r.total_xp
          /\ r.level = LevelOf(r.total_xp)]_vars

\* C8 witness: the second low-data start in a row has been answered, its total
\* holding both grants.
C8_SecondGrant ==
  \E s \in Slots :
    /\ Answered(s, "start") /\ calls[s].resp.insufficient_data
    /\ calls[s].resp.xp_awarded > 0
    /\ calls[s].resp.total_xp = 2 * calls[s].resp.xp_awarded

C10_WeeklyCap ==
  [][/\ detRound'.id # detRound.id => (detRound.id = 0 \/ detRound.week # week)
     /\ \A s \in Slots :
          (Answers(s, "start", "detective") /\ detRound.id > 0 /\ detRound.week = week)
          => /\ detRound' = detRound
             /\ \/ calls'[s].resp.round_id = detRound.id
                \/ ~calls'[s].resp.can_play /\ calls'[s].resp.message]_vars

\* C10 witness: with enough history, a second start of the week has been answered
\* 'come back later' after the week's round ended.
C10_ComeBackLater ==
  /\ screen = "detective" /\ history = "enough"
  /\ \E s \in Slots :
       /\ Answered(s, "start") /\ ~calls[s].resp.can_play
       /\ ~calls[s].resp.insufficient_data
  /\ detRound.status # "in_progress"

\* the local quiz keeps the correct choice of question i in its questions cell
TriviaHolds(i) == trivia.questions[i + 1].correctIndex \in Choices
\* question i has been checked
TriviaAnswered(i) == i < trivia.index \/ (i = trivia.index /\ trivia.checked)

\* C11: the client holds the correct answer of an item only once that item has
\* been answered; at the start of a round it holds no correct answer.
\* Local quiz: every question whose correct choice is in the component's state
\* has been checked.
C11_CorrectHeldOnlyOnceAnswered ==
  \A i \in 0..(Len(trivia.questions) - 1) : TriviaHolds(i) => TriviaAnswered(i)

\* C12: in a categories round a judged incorrect pairing takes exactly one try and
\* leaves both pools and the solved list as they were; a judged correct pairing
\* removes exactly the two submitted tiles from the pools, appends exactly that
\* pair to the solved list and leaves the tries as they were. The screen takes
\* the tries from the response, its pools and solved list change the same way.
C12_PairingFrame ==
  [][\A s \in Slots :
       /\ (Answers(s, "submit", "categories") /\ calls'[s].resp.ok)
          => LET q == calls[s].req IN
             IF calls'[s].resp.correct
             THEN /\ catRound'.tries = catRound.tries
                  /\ catRound'.solved = catRound.solved \cup {q.category_id}
                  /\ q.category_id \notin catRound.solved
                  /\ q.amount_id = q.category_id
             ELSE /\ catRound'.tries = catRound.tries - 1
                  /\ catRound'.solved = catRound.solved
       /\ (Connections_onCheck_resume(s) /\ calls[s].resp.ok)
          => LET q == calls[s].req
                 json == calls[s].resp
             IN  /\ cat'.tries = json.tries_remaining
                 /\ cat'.tiles = cat.tiles
                 /\ IF json.correct
                    THEN /\ cat'.solved = Append(cat.solved, <<q.category_id, q.amount_id>>)
                         /\ unsolvedCategories' = unsolvedCategories \ {q.category_id}
                         /\ unsolvedAmounts' = unsolvedAmounts \ {q.amount_id}
                    ELSE /\ cat'.solved = cat.solved
                         /\ unsolvedCategories' = unsolvedCategories
                         /\ unsolvedAmounts' = unsolvedAmounts]_vars

\* C12 witness: the screen has taken a wrong and a correct pairing of its round.
C12_WrongAndCorrectTaken ==
  /\ screen = "categories" /\ cat.roundId = catRound.id
  /\ catRound.status = "in_progress"
  /\ cat.tries = INITIAL_TRIES - 1 /\ catRound.tries = cat.tries
  /\ Len(cat.solved) = 1 /\ SolvedCats = catRound.solved
  /\ unsolvedCategories = cat.tiles \ catRound.solved
  /\ \A s \in Slots : IsFree(s)

\* C13: in a categories round started with 5 category and 5 amount tiles the
\* number of solved pairs plus the tiles left in the category pool is 5, and
\* likewise for the amount pool; when the round has completed by five correct
\* pairs and no call of the screen is pending, the solved list holds 5 pairs and
\* both pools are empty.
C13_PoolsAndSolved ==
  (screen = "categories" /\ Cardinality(cat.tiles) = total)
  => /\ solvedCount + Cardinality(unsolvedCategories) = total
     /\ solvedCount + Cardinality(unsolvedAmounts) = total
     /\ (/\ ~cat.loading /\ \A s \in Slots : IsFree(s)
         /\ cat.roundId = catRound.id
         /\ catRound.status = "complete" /\ catRound.solved = cat.tiles)
        => /\ solvedCount = total
           /\ unsolvedCategories = {} /\ unsolvedAmounts = {}

\* C14: in a detective round a judged correct guess raises the running
\* correct-count by exactly one and leaves the tries; a judged incorrect guess
\* takes exactly one try and leaves the count; the count never exceeds the
\* round's number of anomalies, which is between 2 and 4. The screen shows the
\* count of the response and never more tries than it showed before.
C14_GuessFrame ==
  [][/\ \A s \in Slots :
          /\ (Answers(s, "submit", "detective") /\ calls'[s].resp.ok)
             => LET json == calls'[s].resp IN
                /\ IF json.correct
                   THEN /\ Cardinality(detRound'.found) = Cardinality(detRound.found) + 1
                        /\ detRound'.tries = detRound.tries
                        /\ json.new_correct = 1
                   ELSE /\ detRound'.tries = detRound.tries - 1
                        /\ detRound'.found = detRound.found
                        /\ json.new_correct = 0
                /\ json.total_correct = Cardinality(detRound'.found)
                /\ json.tries_remaining = detRound'.tries
          /\ (SpendDetective_onSubmit_resume(s) /\ calls[s].resp.ok)
             => LET json == calls[s].resp IN
                /\ det'.totalCorrect = json.total_correct
                /\ det'.tries = Min(det.tries, json.tries_remaining)
                /\ (~json.correct => det'.locked = det.locked)
     /\ (detRound'.status # "none")
        => /\ Cardinality(detRound'.found) <= Cardinality(detRound'.anoms)
           /\ Cardinality(detRound'.anoms) \in MIN_ANOMALIES..MAX_ANOMALIES
     /\ (screen = "detective" /\ det'.totalAnomalies # Absent)
        => /\ det'.totalCorrect <= det'.totalAnomalies
           /\ det'.totalAnomalies \in MIN_ANOMALIES..MAX_ANOMALIES]_vars

\* C14 witness: the screen has taken a wrong guess and a correct guess of its round.
C14_HitAndMissTaken ==
  /\ screen = "detective" /\ det.roundId = detRound.id
  /\ detRound.status = "in_progress"
  /\ det.totalCorrect = 1 /\ Cardinality(detRound.found) = 1
  /\ det.tries = INITIAL_TRIES - 1 /\ detRound.tries = det.tries
  /\ \A s \in Slots : IsFree(s)

\* C15: level and rank are functions of total_xp alone; no call site derives a
\* level from anything but the server-held total_xp. Local quiz, where the
\* ledger's total_xp is the same in every state: the level of the result card is
\* the one any other score of the round would have shown.
C15_LevelFromTotalXpAlone ==
  trivia.result.set
  => \A sc \in 0..trivia.result.total :
       TriviaLevel(sc, trivia.result.total) = trivia.result.level

\* C16: the rank tiers are six, with the strictly increasing minimums 0, 500,
\* 1500, 3500, 7000 and 12000; the rank shown for a total_xp is the tier with the
\* greatest minimum not above it (the lowest tier when there is none), exactly
\* one tier fits, and the rank never goes down as total_xp goes up.
C16_RankOfTotalXp ==
  /\ [i \in 1..Len(tiers) |-> tiers[i].min] = <<0, 500, 1500, 3500, 7000, 12000>>
  /\ \A i \in 1..(Len(tiers) - 1) : tiers[i].min < tiers[i + 1].min
  /\ currentTier.min <= home.xp
  /\ \A i \in 1..Len(tiers) : tiers[i].min <= home.xp => tiers[i].min <= currentTier.min
  /\ Cardinality({i \in 1..Len(tiers) :
                    /\ tiers[i].min <= home.xp
                    /\ (i < Len(tiers) => home.xp < tiers[i + 1].min)}) = 1
  /\ \A y \in XpValues : (home.xp <= y => currentTierIndex <= TierIndexOf(y))
                         /\ (y <= home.xp => TierIndexOf(y) <= currentTierIndex)
  /\ TierIndexOf(0 - 1) = 0
  /\ (currentTierIndex + 1 < Len(tiers)) => toNext = tiers[currentTierIndex + 2].min - home.xp

\* C16 witness: a loaded profile whose total lies inside the fifth tier.
C16_InsideFifthTier ==
  /\ screen = "home" /\ ~home.loading
  /\ home.xp = ledger.total_xp
  /\ home.xp > 7000 /\ home.xp < 12000
  /\ currentTier.name = "Investment Expert"

\* C17: in a result 0 <= score <= total and accuracy = score / total; in the
\* local quiz the score is the number of questions whose recorded choice is the
\* correct one, each counted once, whatever the order of the presses.
C17_ScoreCountsCorrectChoices ==
  trivia.result.set
  => /\ 0 <= trivia.result.score /\ trivia.result.score <= trivia.result.total
     /\ trivia.result.total = Len(trivia.questions)
     /\ trivia.result.accuracy.den > 0
     /\ trivia.result.accuracy.num * trivia.result.total
          = trivia.result.score * trivia.result.accuracy.den
     /\ trivia.result.score =
          Cardinality({i \in 0..(Len(trivia.questions) - 1) :
                         trivia.answers[i] = trivia.questions[i + 1].correctIndex})
     /\ \A i \in 0..(Len(trivia.questions) - 1) : trivia.answers[i] \in Choices

\* C17 witness: a result card after a round with right and wrong choices, the
\* last one right.
C17_MixedRoundScored ==
  /\ trivia.result.set
  /\ trivia.result.score = 3
  /\ trivia.answers[TRIVIA_QUESTIONS - 1] = trivia.questions[TRIVIA_QUESTIONS].correctIndex
  /\ trivia.answers[0] # trivia.questions[1].correctIndex

\* C18: xp_earned is 20 times the score, and a quiz round has 5 questions, so a
\* round answered all correctly yields score 5 of 5 and 100 XP.
C18_TwentyPerCorrectOfFive ==
  trivia.result.set
  => /\ trivia.result.xpEarned = 20 * trivia.result.score
     /\ Len(trivia.questions) = 5
     /\ (\A i \in 0..(Len(trivia.questions) - 1) :
           trivia.answers[i] = trivia.questions[i + 1].correctIndex)
        => /\ trivia.result.score = 5 /\ trivia.result.total = 5
           /\ trivia.result.xpEarned = 100

\* C19: every network call a screen issues eventually ends, with a response or
\* with an error, so that no call leaves the screen waiting forever.
C19_EveryCallEnds ==
  \A s \in Slots : (~IsFree(s)) ~> IsFree(s)

\* C20: a submit that was applied by the engine while its response was lost is not
\* counted a second time when the screen sends it again: with one submit out at
\* a time, the answer the engine judges costs at most one try against the tries
\* the screen showed when it was sent, and a pair or anomaly already counted is
\* not counted again.
C20_RetryCountsOnce ==
  [][\A s \in Slots :
       /\ (Answers(s, "submit", "categories") /\ calls'[s].resp.ok
           /\ cat.roundId = catRound.id)
          => /\ catRound'.tries >= cat.tries - 1
             /\ calls[s].req.category_id \notin catRound.solved
       /\ (Answers(s, "submit", "detective") /\ calls'[s].resp.ok
           /\ det.roundId = detRound.id)
          => /\ detRound'.tries >= det.tries - 1
             /\ calls[s].req.selected_id \notin detRound.found]_vars

\* C21: the client sends no start or submit request that lacks the
\* Authorization header: every call of the three screens that is in flight
\* or answered was sent with a bearer token.
C21_EveryRequestAuthorized ==
  \A s \in Slots : ~IsFree(s) => calls[s].authorization

\* a step that takes up the answer of call s, which said ok = false
Refused(s) ==
  /\ ~IsFree(s) /\ calls[s].phase = "answered" /\ ~calls[s].resp.ok
  /\ calls'[s] # calls[s]

\* C22: a response with ok = false changes none of tries, solved pairs, locked
\* items, correct count, completion and final stats, in each of the three screens.
C22_RefusedResponseApplied ==
  [][\A s \in Slots : Refused(s) =>
       /\ cat'.tries = cat.tries /\ cat'.solved = cat.solved
       /\ cat'.completed = cat.completed /\ cat'.finalStats = cat.finalStats
       /\ det'.tries = det.tries /\ det'.locked = det.locked
       /\ det'.totalCorrect = det.totalCorrect /\ det'.completed = det.completed
       /\ det'.finalStats = det.finalStats
       /\ quiz'.feedbackState = quiz.feedbackState
       /\ quiz'.finalResults = quiz.finalResults
       /\ quiz'.currentIndex = quiz.currentIndex]_vars

\* a step that sends a call of kind k from the quiz screen
QuizSends(s, k) ==
  /\ IsFree(s) /\ calls'[s].kind = k /\ calls'[s].game = "quiz"

\* the questions of the screen before the one shown
QuizEarlier == {quiz.questions[i] : i \in 1..quiz.currentIndex}

\* C23: the quiz screen sends the answer to a question only when every earlier
\* question has an accepted answer, moves to the next question only from an
\* acknowledged answer (ok = true) to the one shown, and sends 'complete' only
\* when the last question is acknowledged and every question has an accepted answer.
C23_AnswersInOrder ==
  [][/\ \A s \in Slots :
          /\ QuizSends(s, "answer")
             => /\ calls'[s].req.question_id = currentQuestion
                /\ ~quiz.feedbackState.set
                /\ QuizEarlier \subseteq quizRound.answered
          /\ QuizSends(s, "complete")
             => /\ quiz.feedbackState.set /\ isLastQuestion
                /\ quizRound.answered = Questions
                /\ \A t \in Slots : IsFree(t)
     /\ (quiz'.feedbackState.set /\ ~quiz.feedbackState.set)
        => \E s \in Slots :
             /\ Answered(s, "answer") /\ calls[s].resp.ok
             /\ calls[s].req.question_id = currentQuestion
             /\ calls'[s] = FreeCall /\ quiz'.currentIndex = quiz.currentIndex
     /\ (quiz'.currentIndex > quiz.currentIndex)
        => quiz.feedbackState.set /\ quiz'.currentIndex = quiz.currentIndex + 1]_vars

\* C23 witness: 'complete' is in flight after both questions were acknowledged.
C23_CompleteAfterAllAnswers ==
  /\ screen = "quiz" /\ quizRound.answered = Questions
  /\ \E s \in Slots : Sent(s, "complete") /\ calls[s].game = "quiz"

\* C24: postJsonWithFallback contacts the next URL only when the previous one
\* answered HTTP 404; any other HTTP error or a network failure ends the call.
C24_NextUrlOnlyAfter404 ==
  [][\A s \in Slots :
       (/\ ~IsFree(s) /\ calls[s].kind = "submit" /\ calls[s].game = "detective"
        /\ ~IsFree(s)' /\ calls'[s].req.url = calls[s].req.url + 1)
       => calls[s].phase = "answered" /\ calls[s].resp.http = 404]_vars

\* the submit call s of the categories screen was sent for an earlier round than the one shown
CatStale(s) ==
  /\ Answered(s, "submit") /\ calls[s].game = "categories"
  /\ ~cat.loading /\ cat.canPlay /\ calls[s].req.round_id # cat.roundId

\* the submit call s of the detective screen was sent for an earlier round than the one shown
DetStale(s) ==
  /\ Answered(s, "submit") /\ calls[s].game = "detective"
  /\ ~det.loading /\ det.canPlay /\ calls[s].req.round_id # det.roundId

\* C25: the response to a submit that was sent before the player restarted is not
\* applied to the new round: tries, solved pairs, locked items, correct count and
\* completion stay as they are when it arrives.
C25_StaleResponseDropped ==
  [][\A s \in Slots :
       /\ (CatStale(s) /\ calls'[s] = FreeCall)
          => /\ cat'.tries = cat.tries /\ cat'.solved = cat.solved
             /\ cat'.completed = cat.completed /\ cat'.finalStats = cat.finalStats
       /\ (DetStale(s) /\ calls'[s] = FreeCall)
          => /\ det'.tries = det.tries /\ det'.locked = det.locked
             /\ det'.totalCorrect = det.totalCorrect
             /\ det'.completed = det.completed /\ det'.finalStats = det.finalStats]_vars

\* the tiles of the solved list, categories and amounts, with repetitions
SolvedTileCount(t) ==
  Cardinality({i \in DOMAIN cat.solved : cat.solved[i][1] = t})

\* C26: the categories screen has at most one submit in flight at a time, no tile
\* appears twice in its solved list and the solved count never exceeds 5.
C26_OneSubmitInFlight ==
  /\ Cardinality({s \in Slots : calls[s].kind = "submit"
                                /\ calls[s].game = "categories"}) <= 1
  /\ \A t \in Tiles : SolvedTileCount(t) <= 1
  /\ solvedCount <= total

\* a step in which screen g sends a new submit (not the fallback's next URL)
SubmitPressed(s, g) ==
  /\ IsFree(s) /\ calls'[s].kind = "submit" /\ calls'[s].game = g

\* C27: neither the categories nor the detective screen sends a submit once the
\* round is over on the client (displayed tries 0, or completed).
C27_NoSubmitAfterRoundOver ==
  [][\A s \in Slots :
       /\ SubmitPressed(s, "categories") => cat.tries > 0 /\ ~cat.completed
       /\ SubmitPressed(s, "detective") => det.tries > 0 /\ ~det.completed]_vars

\* the start call s of screen g was answered ok with can_play = false
NotPlayable(s, g) ==
  /\ Answered(s, "start") /\ calls[s].game = g
  /\ calls[s].resp.ok /\ ~calls[s].resp.can_play

\* C28: a start response with can_play = false never puts a screen in its playable
\* state, with or without insufficient_data or a message: the play view is not
\* shown, and the screen holds no round id and no items.
C28_NotPlayableNeverPlayable ==
  [][\A s \in Slots :
       /\ (NotPlayable(s, "categories") /\ Connections_startRound_resume(s))
          => ~CatPlayView' /\ cat'.roundId = Null /\ cat'.tiles = {}
       /\ (NotPlayable(s, "detective") /\ SpendDetective_startRound_resume(s))
          => ~DetPlayView' /\ det'.roundId = Null /\ det'.transactions = {}
       /\ (NotPlayable(s, "quiz") /\ SmartSaverQuiz_loadQuiz_resume(s))
          => ~(QuizView /\ currentQuestion # Null)']_vars

\* a step in which a start call of the quiz screen ends without a playable set:
\* the fetch fails or times out, or the response is refused or not playable
QuizStartFailed(s) ==
  /\ ~IsFree(s) /\ calls[s].kind = "start" /\ calls[s].game = "quiz"
  /\ calls'[s] = FreeCall
  /\ quiz'.error # "none"

\* C29: after a failed start call the quiz screen offers no question: the
\* questions of the set played before cannot be answered after a failed restart.
C29_NoQuestionAfterFailedStart ==
  [][\A s \in Slots :
       QuizStartFailed(s) => ~(QuizView /\ currentQuestion # Null)']_vars

\* a step that ends a profile load which did not succeed: a network error, a body
\* that is not JSON, or a status that is not 2xx, with or without a body
ProfileLoadFailed ==
  /\ home.pending /\ ~home'.pending
  /\ home.res = NoProfileRes \/ ~home.res.ok \/ home.res.body # "json"

\* C30: a failed profile load leaves the displayed XP and rank unchanged; XP only
\* changes to the total_xp of a successful profile response; loading is false
\* again after every load.
C30_FailedLoadKeepsXp ==
  [][/\ ProfileLoadFailed => home'.xp = home.xp /\ currentTierIndex' = currentTierIndex
     /\ home'.xp # home.xp
        => home.res.ok /\ home.res.body = "json" /\ home'.xp = home.res.total_xp
     /\ (home.pending /\ ~home'.pending) => ~home'.loading]_vars
====
